---- MODULE Spec2Model ----
(***************************************************************************)
(* Model of the watch-together server: the room registry (RoomManager),    *)
(* the control-mode manager (ControlModeManager), the sync engine          *)
(* (SyncEngine), the Socket.IO event handlers (setupSocketHandlers) and    *)
(* the drift correction of the client's useSync hook.                      *)
(*                                                                         *)
(* Node runs every handler and every timer callback to completion on one   *)
(* thread, so each handler is one atomic action.  JavaScript Maps iterate  *)
(* in insertion order; the registry and each participant map are therefore *)
(* sequences.  Nicknames and createdAt are carried by the code but never   *)
(* read by any decision; they are left out of the records.                 *)
(***************************************************************************)
EXTENDS Integers, Sequences, FiniteSets, TLC

\* ---------------------------------------------------------------- bounds
MaxSockets == 3      \* connected clients, one-room exploration
MaxCodes == 1        \* room codes generateRoomCode can draw, one-room exploration
MaxTime == 1         \* last value of Date.now() (milliseconds)
MaxPos == 1          \* largest playbackTime a client sends (milliseconds)
MaxRoomsSockets == 2 \* connected clients, many-room exploration
MaxRoomsCodes == 2   \* room codes, many-room exploration
MaxFullSteps == 1    \* handler runs explored from a nearly full room
MaxCalcTime == 2     \* last instant a projection is evaluated at (milliseconds)
MaxRate == 2         \* largest playbackRate of a projected clock
MaxSignal == 2       \* distinct offers, answers or candidates a client sends
MaxClientSockets == 2  \* pages open, where the clients are modelled
MaxStamp == 2        \* largest timestamp of an action in a conflict
MaxOff == 1          \* how far around each drift threshold positions are probed
                     \* (milliseconds)

\* ------------------------------------------------------ program constants
MAX_PARTICIPANTS == 20

\* useSync: hard-seek threshold and minimum drift for a rate adjustment.
\* Positions and drifts are counted in milliseconds throughout the model, so
\* the code's 0.3 and 0.1 seconds are 300 and 100, and a playback rate
\* multiplier is counted in hundredths (1.05 is 105).
syncThreshold == 300
minDriftForAdjustment == 100

NoCode == 0

VARIABLES
  now,        \* Date.now()
  conn,       \* socket id -> "connected" | "gone"
  rooms,      \* RoomManager.rooms, in insertion order
  intervals,  \* SyncEngine.intervals: room codes with a running timer
  sioRooms,   \* Socket.IO adapter: room code -> sockets joined to it
  out,        \* events emitted by the handler that ran last
  last,       \* the handler that ran last and its outcome
  steps,      \* handler runs so far, counted where scope.maxSteps > 0
  scope,      \* what the clients of this exploration can send: the room
              \* codes in play, the playbackTime payloads, the run length
  inflight,   \* requests clients have sent that no handler has taken up yet
  handled,    \* the requests of inflight taken up so far, in handling order
  calc,       \* a pure function under evaluation: its inputs and results
  client      \* socket id -> the RoomContext state and the video element of
              \* the page behind the socket, where pages are modelled

vars == <<now, conn, rooms, intervals, sioRooms, out, last, steps, scope,
          inflight, handled, calc, client>>

\* ------------------------------------------------------ JavaScript values
Num(n) == [t |-> "num", v |-> n]
Undefined == [t |-> "undefined", v |-> 0]
NaN == [t |-> "NaN", v |-> 0]

\* truthiness of a number-or-undefined value
Truthy(x) == x.t = "num" /\ x.v # 0

\* a || b
JsOr(a, b) == IF Truthy(a) THEN a ELSE b

\* a + b on numbers; undefined and NaN operands give NaN
JsAdd(a, b) == IF a.t = "num" /\ b.t = "num" THEN Num(a.v + b.v) ELSE NaN

PlaybackTimes == {Undefined} \cup {Num(n) : n \in 0..MaxPos}
Modes == {"host-only", "shared", "other"}
Actions == {"play", "pause", "seek"}

\* ------------------------------------------------------------ Map helpers
RECURSIVE IndexOfKey(_, _, _)
IndexOfKey(seq, key, i) ==
  IF i > Len(seq) THEN 0
  ELSE IF seq[i].socketId = key THEN i ELSE IndexOfKey(seq, key, i + 1)

\* Map.prototype.has on a participant map
MapHas(seq, key) == IndexOfKey(seq, key, 1) # 0

\* Map.prototype.set: an existing key keeps its position
MapSet(seq, key, val) ==
  IF MapHas(seq, key) THEN [seq EXCEPT ![IndexOfKey(seq, key, 1)] = val]
  ELSE Append(seq, val)

RemoveAt(seq, i) == SubSeq(seq, 1, i - 1) \o SubSeq(seq, i + 1, Len(seq))

\* Map.prototype.delete
MapDelete(seq, key) ==
  IF MapHas(seq, key) THEN RemoveAt(seq, IndexOfKey(seq, key, 1)) ELSE seq

Keys(seq) == {seq[i].socketId : i \in 1..Len(seq)}

\* ------------------------------------------------------------ RoomManager
RECURSIVE RoomIndexFrom(_, _, _)
RoomIndexFrom(rs, roomCode, i) ==
  IF i > Len(rs) THEN 0
  ELSE IF rs[i].roomCode = roomCode THEN i ELSE RoomIndexFrom(rs, roomCode, i + 1)

RoomIndex(rs, roomCode) == RoomIndexFrom(rs, roomCode, 1)

\* this.rooms.has(code)
HasRoom(rs, roomCode) == RoomIndex(rs, roomCode) # 0

\* getRoom: only used where HasRoom holds
getRoom(rs, roomCode) == rs[RoomIndex(rs, roomCode)]

RoomCodes(rs) == {rs[i].roomCode : i \in 1..Len(rs)}

\* this.rooms.set(roomCode, room)
RoomsSet(rs, roomCode, room) ==
  IF HasRoom(rs, roomCode) THEN [rs EXCEPT ![RoomIndex(rs, roomCode)] = room]
  ELSE Append(rs, room)

\* generateRoomCode without the uniqueness retry
generateRoomCode_AnyCode(rs) == scope.codes

\* the codes generateRoomCode can return: random, retried while in use
\* (with every code of the exploration taken, no room:create completes)
generateRoomCode(rs) == scope.codes \ RoomCodes(rs)

FreshPlaybackState(t) ==
  [playbackTime |-> Num(0), isPlaying |-> FALSE,
   lastUpdateTimestamp |-> t, playbackRate |-> 1]

\* a room object whose host is not entered into the participant map
NewRoom_NoParticipant(roomCode, hostSocketId, t) ==
  [roomCode |-> roomCode,
   hostSocketId |-> hostSocketId,
   participants |-> <<>>,
   controlMode |-> "host-only",
   playbackState |-> FreshPlaybackState(t)]

\* the room object built by createRoom
NewRoom(roomCode, hostSocketId, t) ==
  [roomCode |-> roomCode,
   hostSocketId |-> hostSocketId,
   participants |-> <<[socketId |-> hostSocketId, isHost |-> TRUE]>>,
   controlMode |-> "host-only",
   playbackState |-> FreshPlaybackState(t)]

createRoom(rs, roomCode, hostSocketId, t) ==
  RoomsSet(rs, roomCode, NewRoom(roomCode, hostSocketId, t))

\* joinRoom with the capacity test off by one
joinRoom_OffByOne(rs, roomCode, socketId) ==
  IF ~HasRoom(rs, roomCode)
  THEN [success |-> FALSE, error |-> "Room not found", rooms |-> rs]
  ELSE LET room == getRoom(rs, roomCode) IN
       IF Len(room.participants) > MAX_PARTICIPANTS
       THEN [success |-> FALSE, error |-> "Room is full", rooms |-> rs]
       ELSE [success |-> TRUE, error |-> "",
             rooms |-> [rs EXCEPT ![RoomIndex(rs, roomCode)].participants =
                          MapSet(room.participants, socketId,
                                 [socketId |-> socketId, isHost |-> FALSE])]]

joinRoom(rs, roomCode, socketId) ==
  IF ~HasRoom(rs, roomCode)
  THEN [success |-> FALSE, error |-> "Room not found", rooms |-> rs]
  ELSE LET room == getRoom(rs, roomCode) IN
       IF Len(room.participants) >= MAX_PARTICIPANTS
       THEN [success |-> FALSE, error |-> "Room is full", rooms |-> rs]
       ELSE [success |-> TRUE, error |-> "",
             rooms |-> [rs EXCEPT ![RoomIndex(rs, roomCode)].participants =
                          MapSet(room.participants, socketId,
                                 [socketId |-> socketId, isHost |-> FALSE])]]

\* leaveRoom that flags the new host but keeps the old hostSocketId
leaveRoom_StaleHost(rs, roomCode, socketId) ==
  IF ~HasRoom(rs, roomCode)
  THEN [success |-> FALSE, roomDeleted |-> FALSE, rooms |-> rs]
  ELSE LET i == RoomIndex(rs, roomCode)
           room == rs[i]
           remaining == MapDelete(room.participants, socketId)
       IN IF socketId = room.hostSocketId
          THEN IF Len(remaining) > 0
               THEN [success |-> TRUE, roomDeleted |-> FALSE,
                     rooms |-> [rs EXCEPT ![i].participants =
                                  [remaining EXCEPT ![1].isHost = TRUE]]]
               ELSE [success |-> TRUE, roomDeleted |-> TRUE,
                     rooms |-> RemoveAt(rs, i)]
          ELSE [success |-> TRUE, roomDeleted |-> FALSE,
                rooms |-> [rs EXCEPT ![i].participants = remaining]]

\* leaveRoom that never deletes the room
leaveRoom_NoDelete(rs, roomCode, socketId) ==
  IF ~HasRoom(rs, roomCode)
  THEN [success |-> FALSE, roomDeleted |-> FALSE, rooms |-> rs]
  ELSE LET i == RoomIndex(rs, roomCode)
           room == rs[i]
           remaining == MapDelete(room.participants, socketId)
       IN IF socketId = room.hostSocketId /\ Len(remaining) > 0
          THEN [success |-> TRUE, roomDeleted |-> FALSE,
                rooms |-> [rs EXCEPT ![i].participants =
                             [remaining EXCEPT ![1].isHost = TRUE],
                           ![i].hostSocketId = remaining[1].socketId]]
          ELSE [success |-> TRUE, roomDeleted |-> FALSE,
                rooms |-> [rs EXCEPT ![i].participants = remaining]]

\* leaveRoom that promotes the participant inserted last
leaveRoom_PromoteLast(rs, roomCode, socketId) ==
  IF ~HasRoom(rs, roomCode)
  THEN [success |-> FALSE, roomDeleted |-> FALSE, rooms |-> rs]
  ELSE LET i == RoomIndex(rs, roomCode)
           room == rs[i]
           remaining == MapDelete(room.participants, socketId)
       IN IF socketId = room.hostSocketId
          THEN IF Len(remaining) > 0
               THEN [success |-> TRUE, roomDeleted |-> FALSE,
                     rooms |-> [rs EXCEPT ![i].participants =
                                  [remaining EXCEPT ![Len(remaining)].isHost = TRUE],
                                ![i].hostSocketId =
                                  remaining[Len(remaining)].socketId]]
               ELSE [success |-> TRUE, roomDeleted |-> TRUE,
                     rooms |-> RemoveAt(rs, i)]
          ELSE [success |-> TRUE, roomDeleted |-> FALSE,
                rooms |-> [rs EXCEPT ![i].participants = remaining]]

leaveRoom(rs, roomCode, socketId) ==
  IF ~HasRoom(rs, roomCode)
  THEN [success |-> FALSE, roomDeleted |-> FALSE, rooms |-> rs]
  ELSE LET i == RoomIndex(rs, roomCode)
           room == rs[i]
           remaining == MapDelete(room.participants, socketId)
       IN IF socketId = room.hostSocketId
          THEN IF Len(remaining) > 0
               THEN [success |-> TRUE, roomDeleted |-> FALSE,
                     rooms |-> [rs EXCEPT ![i].participants =
                                  [remaining EXCEPT ![1].isHost = TRUE],
                                ![i].hostSocketId = remaining[1].socketId]]
               ELSE [success |-> TRUE, roomDeleted |-> TRUE,
                     rooms |-> RemoveAt(rs, i)]
          ELSE [success |-> TRUE, roomDeleted |-> FALSE,
                rooms |-> [rs EXCEPT ![i].participants = remaining]]

RECURSIVE RoomIndexBySocketFrom(_, _, _)
RoomIndexBySocketFrom(rs, socketId, i) ==
  IF i > Len(rs) THEN 0
  ELSE IF MapHas(rs[i].participants, socketId) THEN i
       ELSE RoomIndexBySocketFrom(rs, socketId, i + 1)

\* getRoomBySocketId: index of the first room holding the socket, 0 for null
getRoomBySocketId(rs, socketId) == RoomIndexBySocketFrom(rs, socketId, 1)

\* updatePlaybackState that merges without stamping
updatePlaybackState_NoStamp(rs, roomCode, playbackState, t) ==
  IF HasRoom(rs, roomCode)
  THEN [rs EXCEPT ![RoomIndex(rs, roomCode)].playbackState = playbackState]
  ELSE rs

\* updatePlaybackState: merge and stamp (only called where the room exists)
updatePlaybackState(rs, roomCode, playbackState, t) ==
  IF HasRoom(rs, roomCode)
  THEN [rs EXCEPT ![RoomIndex(rs, roomCode)].playbackState =
          [playbackState EXCEPT !.lastUpdateTimestamp = t]]
  ELSE rs

\* changeControlMode that writes the mode into every room
changeControlMode_AllRooms(rs, roomCode, mode) ==
  IF HasRoom(rs, roomCode)
  THEN [i \in 1..Len(rs) |-> [rs[i] EXCEPT !.controlMode = mode]]
  ELSE rs

changeControlMode(rs, roomCode, mode) ==
  IF HasRoom(rs, roomCode)
  THEN [rs EXCEPT ![RoomIndex(rs, roomCode)].controlMode = mode]
  ELSE rs

\* canControl that lets every socket control
canControl_Everyone(rs, roomCode, socketId) == HasRoom(rs, roomCode)

\* canControl that lets only the host control, whatever the mode
canControl_HostAlways(rs, roomCode, socketId) ==
  IF ~HasRoom(rs, roomCode) THEN FALSE
  ELSE socketId = getRoom(rs, roomCode).hostSocketId

canControl(rs, roomCode, socketId) ==
  IF ~HasRoom(rs, roomCode) THEN FALSE
  ELSE IF getRoom(rs, roomCode).controlMode = "host-only"
       THEN socketId = getRoom(rs, roomCode).hostSocketId
       ELSE TRUE

\* ----------------------------------------------------- ControlModeManager
\* changeMode without the host comparison
changeMode_NoHostCheck(rs, roomCode, socketId, newMode) ==
  IF ~HasRoom(rs, roomCode)
  THEN [success |-> FALSE, error |-> "Room not found", rooms |-> rs]
  ELSE IF newMode # "host-only" /\ newMode # "shared"
  THEN [success |-> FALSE, error |-> "Invalid control mode", rooms |-> rs]
  ELSE [success |-> TRUE, error |-> "",
        rooms |-> changeControlMode(rs, roomCode, newMode)]

\* changeMode that writes the mode before it checks the requester
changeMode_WriteFirst(rs, roomCode, socketId, newMode) ==
  IF ~HasRoom(rs, roomCode)
  THEN [success |-> FALSE, error |-> "Room not found", rooms |-> rs]
  ELSE IF socketId # getRoom(rs, roomCode).hostSocketId
  THEN [success |-> FALSE, error |-> "Only host can change control mode",
        rooms |-> changeControlMode(rs, roomCode, "shared")]
  ELSE IF newMode # "host-only" /\ newMode # "shared"
  THEN [success |-> FALSE, error |-> "Invalid control mode", rooms |-> rs]
  ELSE [success |-> TRUE, error |-> "",
        rooms |-> changeControlMode(rs, roomCode, newMode)]

\* changeMode without the validation of the mode
changeMode_AnyMode(rs, roomCode, socketId, newMode) ==
  IF ~HasRoom(rs, roomCode)
  THEN [success |-> FALSE, error |-> "Room not found", rooms |-> rs]
  ELSE IF socketId # getRoom(rs, roomCode).hostSocketId
  THEN [success |-> FALSE, error |-> "Only host can change control mode",
        rooms |-> rs]
  ELSE [success |-> TRUE, error |-> "",
        rooms |-> changeControlMode(rs, roomCode, newMode)]

changeMode(rs, roomCode, socketId, newMode) ==
  IF ~HasRoom(rs, roomCode)
  THEN [success |-> FALSE, error |-> "Room not found", rooms |-> rs]
  ELSE IF socketId # getRoom(rs, roomCode).hostSocketId
  THEN [success |-> FALSE, error |-> "Only host can change control mode",
        rooms |-> rs]
  ELSE IF newMode # "host-only" /\ newMode # "shared"
  THEN [success |-> FALSE, error |-> "Invalid control mode", rooms |-> rs]
  ELSE [success |-> TRUE, error |-> "",
        rooms |-> changeControlMode(rs, roomCode, newMode)]

\* resolveConflict that keeps the first action on a tie
resolveConflict_FirstOnTie(action1, action2) ==
  IF ~Truthy(action1.timestamp) \/ ~Truthy(action2.timestamp)
  THEN action2
  ELSE IF action1.timestamp.v >= action2.timestamp.v THEN action1 ELSE action2

resolveConflict(action1, action2) ==
  IF ~Truthy(action1.timestamp) \/ ~Truthy(action2.timestamp)
  THEN action2
  ELSE IF action1.timestamp.v > action2.timestamp.v THEN action1 ELSE action2

\* ------------------------------------------------------------- SyncEngine
\* Date.now() counts milliseconds and the code divides the elapsed time by
\* 1000 to add seconds to a position in seconds; with positions counted in
\* milliseconds that is one position unit per elapsed millisecond and rate.

\* the elapsed milliseconds added as if they were seconds
calculateCurrentPlaybackState_Millis(playbackState, t) ==
  IF ~playbackState.isPlaying THEN playbackState
  ELSE [playbackState EXCEPT !.playbackTime =
          JsAdd(playbackState.playbackTime,
                Num((t - playbackState.lastUpdateTimestamp) * 1000
                    * playbackState.playbackRate))]

\* the elapsed time subtracted
calculateCurrentPlaybackState_Backwards(playbackState, t) ==
  IF ~playbackState.isPlaying THEN playbackState
  ELSE [playbackState EXCEPT !.playbackTime =
          JsAdd(playbackState.playbackTime,
                Num((playbackState.lastUpdateTimestamp - t)
                    * playbackState.playbackRate))]

calculateCurrentPlaybackState(playbackState, t) ==
  IF ~playbackState.isPlaying THEN playbackState
  ELSE [playbackState EXCEPT !.playbackTime =
          JsAdd(playbackState.playbackTime,
                Num((t - playbackState.lastUpdateTimestamp)
                    * playbackState.playbackRate))]

\* a seek that falls back on the stored position like play and pause do
NewPlaybackState_SeekFallback(old, action, playbackTime) ==
  CASE action = "play" ->
         [old EXCEPT !.isPlaying = TRUE,
                     !.playbackTime = JsOr(playbackTime, old.playbackTime)]
    [] action = "pause" ->
         [old EXCEPT !.isPlaying = FALSE,
                     !.playbackTime = JsOr(playbackTime, old.playbackTime)]
    [] action = "seek" ->
         [old EXCEPT !.playbackTime = JsOr(playbackTime, old.playbackTime)]

\* the state handlePlaybackControl builds for an action
NewPlaybackState(old, action, playbackTime) ==
  CASE action = "play" ->
         [old EXCEPT !.isPlaying = TRUE,
                     !.playbackTime = JsOr(playbackTime, old.playbackTime)]
    [] action = "pause" ->
         [old EXCEPT !.isPlaying = FALSE,
                     !.playbackTime = JsOr(playbackTime, old.playbackTime)]
    [] action = "seek" ->
         [old EXCEPT !.playbackTime = playbackTime]

\* handlePlaybackControl without the permission check
handlePlaybackControl_NoAuth(rs, roomCode, socketId, action, playbackTime, t) ==
  IF ~HasRoom(rs, roomCode)
  THEN [success |-> FALSE, error |-> "Room not found", rooms |-> rs,
        playbackTime |-> Undefined]
  ELSE LET new == NewPlaybackState(getRoom(rs, roomCode).playbackState,
                                   action, playbackTime)
       IN [success |-> TRUE, error |-> "",
           rooms |-> updatePlaybackState(rs, roomCode, new, t),
           playbackTime |-> new.playbackTime]

handlePlaybackControl(rs, roomCode, socketId, action, playbackTime, t) ==
  IF ~HasRoom(rs, roomCode)
  THEN [success |-> FALSE, error |-> "Room not found", rooms |-> rs,
        playbackTime |-> Undefined]
  ELSE IF ~canControl(rs, roomCode, socketId)
  THEN [success |-> FALSE, error |-> "No control permission", rooms |-> rs,
        playbackTime |-> Undefined]
  ELSE IF action \notin Actions
  THEN [success |-> FALSE, error |-> "Invalid action", rooms |-> rs,
        playbackTime |-> Undefined]
  ELSE LET new == NewPlaybackState(getRoom(rs, roomCode).playbackState,
                                   action, playbackTime)
       IN [success |-> TRUE, error |-> "",
           rooms |-> updatePlaybackState(rs, roomCode, new, t),
           playbackTime |-> new.playbackTime]

\* Math.abs
Abs(x) == IF x < 0 THEN 0 - x ELSE x

calculateDrift(clientTime, serverTime) == Abs(clientTime - serverTime)

\* the strategy with the two rate adjustments swapped
getCorrectionStrategy_Reversed(drift, clientTime, serverTime) ==
  IF drift < 300
  THEN [type |-> "gradual",
        adjustment |-> IF drift > 100
                       THEN (IF clientTime > serverTime THEN 105 ELSE 95)
                       ELSE 100]
  ELSE [type |-> "seek"]

\* the strategy that seeks only beyond 0.3 s
getCorrectionStrategy_SeekAbove(drift, clientTime, serverTime) ==
  IF drift <= 300
  THEN [type |-> "gradual",
        adjustment |-> IF drift > 100
                       THEN (IF clientTime > serverTime THEN 95 ELSE 105)
                       ELSE 100]
  ELSE [type |-> "seek"]

getCorrectionStrategy(drift, clientTime, serverTime) ==
  IF drift < 300
  THEN [type |-> "gradual",
        adjustment |-> IF drift > 100
                       THEN (IF clientTime > serverTime THEN 95 ELSE 105)
                       ELSE 100]
  ELSE [type |-> "seek"]

\* a timer that never gets registered
startSync_Noop(iv, roomCode) == iv

\* a timer that never gets cleared
stopSync_Noop(iv, roomCode) == iv

\* startSync / stopSync on the interval table
startSync(iv, roomCode) == iv \cup {roomCode}
stopSync(iv, roomCode) == iv \ {roomCode}

\* ------------------------------------------------------- client: useSync
\* serverPlaybackRate || 1.0, in hundredths
NormalRate(serverPlaybackRate) ==
  IF serverPlaybackRate # 0 THEN serverPlaybackRate * 100 ELSE 100

\* applySync on the video element [currentTime, paused, playbackRate]
applySync(video, serverTime, serverIsPlaying, serverPlaybackRate) ==
  LET currentTime == video.currentTime
      drift == Abs(currentTime - serverTime)
      played == IF serverIsPlaying /\ video.paused
                THEN [video EXCEPT !.paused = FALSE]
                ELSE IF ~serverIsPlaying /\ ~video.paused
                THEN [video EXCEPT !.paused = TRUE]
                ELSE video
  IN IF drift > syncThreshold
     THEN [played EXCEPT !.currentTime = serverTime]
     ELSE IF drift > minDriftForAdjustment
     THEN [played EXCEPT !.playbackRate =
             IF currentTime < serverTime THEN 105 ELSE 95]
     ELSE [played EXCEPT !.playbackRate = NormalRate(serverPlaybackRate)]

\* ------------------------------------------------- Socket.IO primitives
\* io.to that reaches nobody
IoTo_Nobody(sio, roomCode) == {}

\* io.to(roomCode): the sockets joined to the room
IoTo(sio, roomCode) == sio[roomCode]

\* socket.to(roomCode): the same without the sender
SocketTo(sio, roomCode, socketId) == sio[roomCode] \ {socketId}

\* socket.to(targetSocketId): every socket is joined to the room named by
\* its own id for as long as it is connected, and the sender is left out
SocketToId(cn, targetSocketId, socketId) ==
  IF /\ targetSocketId \in DOMAIN cn /\ cn[targetSocketId] = "connected"
     /\ targetSocketId # socketId
  THEN {targetSocketId}
  ELSE {}

\* socket.join(roomCode) / socket.leave(roomCode)
SocketJoin(sio, roomCode, socketId) == [sio EXCEPT ![roomCode] = @ \cup {socketId}]
SocketLeave(sio, roomCode, socketId) == [sio EXCEPT ![roomCode] = @ \ {socketId}]

\* a disconnecting socket has left every room before 'disconnect' is emitted
SocketLeaveAll(sio, socketId) == [c \in DOMAIN sio |-> sio[c] \ {socketId}]

Msg(event, to, data) == [event |-> event, to |-> to, data |-> data]

\* a rejection that is never sent
ErrorReply_Dropped(event, socketId, error) == <<>>

\* socket.emit('room:error' | 'playback:error' | 'mode:error', { error })
ErrorReply(event, socketId, error) ==
  <<Msg(event, {socketId}, [error |-> error])>>

Done(op, socketId, roomCode, ok, error, wasHost, roomDeleted) ==
  [op |-> op, socket |-> socketId, roomCode |-> roomCode, ok |-> ok,
   error |-> error, wasHost |-> wasHost, roomDeleted |-> roomDeleted]

\* ------------------------------------------------------- event payloads
RoomCreatedData(roomCode, socketId) ==
  [roomCode |-> roomCode, isHost |-> TRUE,
   participant |-> [socketId |-> socketId, isHost |-> TRUE]]

\* room:joined carrying a fresh clock and the default mode
RoomJoinedData_Defaults(roomCode, room, socketId, t) ==
  [roomCode |-> roomCode, isHost |-> FALSE,
   participant |-> room.participants[IndexOfKey(room.participants, socketId, 1)],
   playbackState |-> FreshPlaybackState(t),
   controlMode |-> "host-only"]

RoomJoinedData(roomCode, room, socketId, t) ==
  [roomCode |-> roomCode, isHost |-> FALSE,
   participant |-> room.participants[IndexOfKey(room.participants, socketId, 1)],
   playbackState |-> room.playbackState,
   controlMode |-> room.controlMode]

SyncData(playbackState, t) ==
  LET cur == calculateCurrentPlaybackState(playbackState, t) IN
  [playbackTime |-> cur.playbackTime, isPlaying |-> cur.isPlaying,
   playbackRate |-> cur.playbackRate, timestamp |-> t]

\* ---------------------------------------------------------------- state
Scope(codes, positions, maxSteps) ==
  [codes |-> codes, positions |-> positions, maxSteps |-> maxSteps]

\* calc while no pure function is under evaluation
NoCalc == [fn |-> "none", in |-> <<>>, res |-> <<>>]

\* client while no page is modelled
NoClients == <<>>

\* the server with its clients connected and no room yet
Fresh(sockets, codes) ==
  /\ now = 0
  /\ conn = [s \in sockets |-> "connected"]
  /\ rooms = <<>>
  /\ intervals = {}
  /\ sioRooms = [c \in codes |-> {}]
  /\ out = <<>>
  /\ last = Done("init", 0, NoCode, TRUE, "", FALSE, FALSE)
  /\ steps = 0
  /\ inflight = {}
  /\ handled = <<>>
  /\ calc = NoCalc
  /\ client = NoClients

\* one room at a time, every payload, the clock moving
Init ==
  /\ Fresh(1..MaxSockets, 1..MaxCodes)
  /\ scope = Scope(1..MaxCodes, PlaybackTimes, 0)

\* several rooms side by side, one payload, the clock held
InitRooms ==
  /\ Fresh(1..MaxRoomsSockets, 1..MaxRoomsCodes)
  /\ scope = Scope(1..MaxRoomsCodes, {Num(MaxPos)}, 0)

\* a room that create and MAX_PARTICIPANTS - 1 or fewer joins have filled
\* with sockets 1..n, socket 1 being the host
FilledRoom(n) ==
  [NewRoom(1, 1, 0) EXCEPT !.participants =
     [i \in 1..n |-> [socketId |-> i, isHost |-> (i = 1)]]]

\* a room one join short of full, or full, and one client outside it
InitFull ==
  \E n \in (MAX_PARTICIPANTS - 1)..MAX_PARTICIPANTS :
    /\ now = 0
    /\ conn = [s \in 1..(MAX_PARTICIPANTS + 1) |-> "connected"]
    /\ rooms = <<FilledRoom(n)>>
    /\ intervals = {1}
    /\ sioRooms = [c \in 1..MaxRoomsCodes |-> IF c = 1 THEN 1..n ELSE {}]
    /\ out = <<>>
    /\ last = Done("init", 0, NoCode, TRUE, "", FALSE, FALSE)
    /\ steps = 0
    /\ scope = Scope(1..MaxRoomsCodes, {Num(MaxPos)}, MaxFullSteps)
    /\ inflight = {}
    /\ handled = <<>>
    /\ calc = NoCalc
    /\ client = NoClients

\* one more handler run, within the run length of the exploration
Counted ==
  /\ IF scope.maxSteps = 0 THEN UNCHANGED steps
     ELSE steps < scope.maxSteps /\ steps' = steps + 1
  /\ UNCHANGED <<scope, calc>>

\* -------------------------------------------------------------- actions
\* Date.now() moves on between handlers
AdvanceTime ==
  /\ Counted
  /\ now < MaxTime
  /\ now' = now + 1
  /\ out' = <<>>
  /\ last' = Done("time", 0, NoCode, TRUE, "", FALSE, FALSE)
  /\ UNCHANGED <<conn, rooms, intervals, sioRooms, inflight, handled, client>>

\* socket.on('room:create')
RoomCreate(s) ==
  /\ Counted
  /\ conn[s] = "connected"
  /\ \E roomCode \in generateRoomCode(rooms) :
       /\ rooms' = createRoom(rooms, roomCode, s, now)
       /\ sioRooms' = SocketJoin(sioRooms, roomCode, s)
       /\ intervals' = startSync(intervals, roomCode)
       /\ out' = <<Msg("room:created", {s}, RoomCreatedData(roomCode, s))>>
       /\ last' = Done("room:create", s, roomCode, TRUE, "", FALSE, FALSE)
  /\ UNCHANGED <<now, conn>>

\* socket.on('room:join')
RoomJoin(s, roomCode) ==
  /\ Counted
  /\ conn[s] = "connected"
  /\ LET result == joinRoom(rooms, roomCode, s) IN
     IF result.success
     THEN LET room == getRoom(result.rooms, roomCode)
              sio == SocketJoin(sioRooms, roomCode, s)
          IN /\ rooms' = result.rooms
             /\ sioRooms' = sio
             /\ out' = <<Msg("room:joined", {s},
                             RoomJoinedData(roomCode, room, s, now)),
                         Msg("room:participants", IoTo(sio, roomCode),
                             [participants |-> room.participants]),
                         Msg("room:user-joined", SocketTo(sio, roomCode, s),
                             [participant |-> [socketId |-> s, isHost |-> FALSE]])>>
             /\ last' = Done("room:join", s, roomCode, TRUE, "", FALSE, FALSE)
     ELSE /\ out' = ErrorReply("room:error", s, result.error)
          /\ last' = Done("room:join", s, roomCode, FALSE, result.error, FALSE, FALSE)
          /\ UNCHANGED <<rooms, sioRooms>>
  /\ UNCHANGED <<now, conn, intervals>>

\* handleLeaveRoom(socket), entered with the adapter state sio
handleLeaveRoom(s, op, sio) ==
  LET i == getRoomBySocketId(rooms, s) IN
  IF i = 0
  THEN /\ sioRooms' = sio
       /\ out' = <<>>
       /\ last' = Done(op, s, NoCode, FALSE, "", FALSE, FALSE)
       /\ UNCHANGED <<rooms, intervals>>
  ELSE LET roomCode == rooms[i].roomCode
           wasHost == rooms[i].hostSocketId = s
           result == leaveRoom(rooms, roomCode, s)
           sio1 == SocketLeave(sio, roomCode, s)
       IN /\ rooms' = result.rooms
          /\ sioRooms' = sio1
          /\ last' = Done(op, s, roomCode, TRUE, "", wasHost, result.roomDeleted)
          /\ IF result.roomDeleted
             THEN /\ intervals' = stopSync(intervals, roomCode)
                  /\ out' = <<>>
             ELSE /\ intervals' = intervals
                  /\ out' = <<Msg("room:participants", IoTo(sio1, roomCode),
                                  [participants |->
                                     getRoom(result.rooms, roomCode).participants]),
                              Msg("room:user-left", SocketTo(sio1, roomCode, s),
                                  [socketId |-> s])>>

\* socket.on('room:leave')
RoomLeave(s) ==
  /\ Counted
  /\ conn[s] = "connected"
  /\ handleLeaveRoom(s, "room:leave", sioRooms)
  /\ UNCHANGED <<now, conn>>

\* socket.on('disconnect')
Disconnect(s) ==
  /\ Counted
  /\ conn[s] = "connected"
  /\ conn' = [conn EXCEPT ![s] = "gone"]
  /\ handleLeaveRoom(s, "disconnect", SocketLeaveAll(sioRooms, s))
  /\ UNCHANGED now

\* socket.on('playback:play' | 'playback:pause' | 'playback:seek')
Playback(s, action, roomCode, playbackTime) ==
  /\ Counted
  /\ conn[s] = "connected"
  /\ LET result == handlePlaybackControl(rooms, roomCode, s, action,
                                         playbackTime, now)
         wasHost == HasRoom(rooms, roomCode)
                    /\ getRoom(rooms, roomCode).hostSocketId = s
     IN /\ rooms' = result.rooms
        /\ last' = Done(action, s, roomCode, result.success, result.error,
                        wasHost, FALSE)
        /\ IF result.success
           THEN out' = <<Msg("playback:" \o action, IoTo(sioRooms, roomCode),
                             [playbackTime |-> result.playbackTime,
                              timestamp |-> now])>>
           ELSE out' = ErrorReply("playback:error", s, result.error)
  /\ UNCHANGED <<now, conn, intervals, sioRooms>>

\* socket.on('mode:change')
ModeChange(s, roomCode, mode) ==
  /\ Counted
  /\ conn[s] = "connected"
  /\ LET result == changeMode(rooms, roomCode, s, mode)
         wasHost == HasRoom(rooms, roomCode)
                    /\ getRoom(rooms, roomCode).hostSocketId = s
     IN /\ rooms' = result.rooms
        /\ last' = Done("mode:change", s, roomCode, result.success,
                        result.error, wasHost, FALSE)
        /\ IF result.success
           THEN out' = <<Msg("mode:changed", IoTo(sioRooms, roomCode),
                             [controlMode |-> mode])>>
           ELSE out' = ErrorReply("mode:error", s, result.error)
  /\ UNCHANGED <<now, conn, intervals, sioRooms>>

\* a timer callback that fires once, as setTimeout would have it
SyncTick_Once(roomCode) ==
  /\ Counted
  /\ roomCode \in intervals
  /\ intervals' = stopSync(intervals, roomCode)
  /\ IF ~HasRoom(rooms, roomCode)
     THEN out' = <<>>
     ELSE out' = <<Msg("playback:sync", IoTo(sioRooms, roomCode),
                       SyncData(getRoom(rooms, roomCode).playbackState, now))>>
  /\ last' = Done("tick", 0, roomCode, TRUE, "", FALSE, FALSE)
  /\ UNCHANGED <<now, conn, rooms, sioRooms>>

\* the setInterval callback of startSync
SyncTick(roomCode) ==
  /\ Counted
  /\ roomCode \in intervals
  /\ IF ~HasRoom(rooms, roomCode)
     THEN /\ intervals' = stopSync(intervals, roomCode)
          /\ out' = <<>>
     ELSE /\ intervals' = intervals
          /\ out' = <<Msg("playback:sync", IoTo(sioRooms, roomCode),
                          SyncData(getRoom(rooms, roomCode).playbackState, now))>>
  /\ last' = Done("tick", 0, roomCode, TRUE, "", FALSE, FALSE)
  /\ UNCHANGED <<now, conn, rooms, sioRooms>>

\* socket.on('signal:offer' | 'signal:answer' | 'signal:ice')
Signals == {"signal:offer", "signal:answer", "signal:ice"}

Signal(s, event, targetSocketId, payload, roomCode) ==
  /\ Counted
  /\ conn[s] = "connected"
  /\ out' = <<Msg(event, SocketToId(conn, targetSocketId, s),
                  [fromSocketId |-> s, payload |-> payload,
                   roomCode |-> roomCode])>>
  /\ last' = Done(event, s, roomCode, TRUE, "", FALSE, FALSE)
  /\ UNCHANGED <<now, conn, rooms, intervals, sioRooms>>

\* a 'playback:speed' event, which the client's changeSpeed and setSpeed
\* emit: the server registers no listener for it, so it is discarded
PlaybackSpeed(s, roomCode, speed) ==
  /\ Counted
  /\ conn[s] = "connected"
  /\ out' = <<>>
  /\ last' = Done("playback:speed", s, roomCode, FALSE, "",
                  HasRoom(rooms, roomCode)
                  /\ getRoom(rooms, roomCode).hostSocketId = s, FALSE)
  /\ UNCHANGED <<now, conn, rooms, intervals, sioRooms>>

\* the event handlers and the timer callback, each taking its request
\* straight from a client
Handlers ==
  /\ UNCHANGED <<inflight, handled, client>>
  /\ \/ \E s \in DOMAIN conn : RoomCreate(s)
     \/ \E s \in DOMAIN conn, roomCode \in scope.codes : RoomJoin(s, roomCode)
     \/ \E s \in DOMAIN conn : RoomLeave(s)
     \/ \E s \in DOMAIN conn : Disconnect(s)
     \/ \E s \in DOMAIN conn, action \in Actions, roomCode \in scope.codes,
           playbackTime \in scope.positions :
          Playback(s, action, roomCode, playbackTime)
     \/ \E s \in DOMAIN conn, roomCode \in scope.codes, mode \in Modes :
          ModeChange(s, roomCode, mode)
     \/ \E roomCode \in scope.codes : SyncTick(roomCode)

Next == AdvanceTime \/ Handlers

\* ------------------------------------------------ membership and signaling
\* the handlers that change who is in which room, and the signaling relay
NextSignal ==
  /\ UNCHANGED <<inflight, handled, client>>
  /\ \/ \E s \in DOMAIN conn : RoomCreate(s)
     \/ \E s \in DOMAIN conn, roomCode \in scope.codes : RoomJoin(s, roomCode)
     \/ \E s \in DOMAIN conn : RoomLeave(s)
     \/ \E s \in DOMAIN conn : Disconnect(s)
     \/ \E s \in DOMAIN conn, event \in Signals, targetSocketId \in DOMAIN conn,
           payload \in 1..MaxSignal, roomCode \in scope.codes :
          Signal(s, event, targetSocketId, payload, roomCode)

SpecSignal == Init /\ [][NextSignal]_vars

\* ------------------------------------------------ requests in flight
\* a playback request as its handler receives it
Request(socketId, action, roomCode, playbackTime) ==
  [socket |-> socketId, action |-> action, roomCode |-> roomCode,
   playbackTime |-> playbackTime]

\* a mode:change request and a room:leave request
ModeRequest(socketId, roomCode, mode) ==
  [socket |-> socketId, action |-> "mode:change", roomCode |-> roomCode,
   mode |-> mode]
LeaveRequest(socketId) == [socket |-> socketId, action |-> "room:leave"]
SpeedRequest(socketId, roomCode, speed) ==
  [socket |-> socketId, action |-> "playback:speed", roomCode |-> roomCode,
   speed |-> speed]

\* what the host may have on its way: a playback request, a speed change,
\* a mode change or its leaving the room
HostRequests ==
  {Request(1, a, 1, p) : a \in Actions, p \in PlaybackTimes}
    \cup {SpeedRequest(1, 1, speed) : speed \in 1..MaxRate}
    \cup {ModeRequest(1, 1, m) : m \in Modes}
    \cup {LeaveRequest(1)}

\* what the member may have on its way: a playback request or a speed change
MemberRequests ==
  {Request(2, a, 1, p) : a \in Actions, p \in PlaybackTimes}
    \cup {SpeedRequest(2, 1, speed) : speed \in 1..MaxRate}

\* room 1 with host 1 and member 2, in either mode and with any stored
\* clock, while the host and the member each have one request on its way
InitRace ==
  \E mode \in {"host-only", "shared"}, playbackTime \in PlaybackTimes,
     isPlaying \in BOOLEAN, r1 \in HostRequests, r2 \in MemberRequests :
    LET playbackState == [FreshPlaybackState(0) EXCEPT
                            !.playbackTime = playbackTime,
                            !.isPlaying = isPlaying]
    IN /\ now = 0
       /\ conn = [s \in 1..2 |-> "connected"]
       /\ rooms = <<[FilledRoom(2) EXCEPT !.controlMode = mode,
                                          !.playbackState = playbackState]>>
       /\ intervals = {1}
       /\ sioRooms = [c \in 1..MaxCodes |-> IF c = 1 THEN 1..2 ELSE {}]
       /\ out = <<>>
       /\ last = Done("init", 0, NoCode, TRUE, "", FALSE, FALSE)
       /\ steps = 0
       /\ scope = Scope(1..MaxCodes, PlaybackTimes, 0)
       /\ inflight = {r1, r2}
       /\ handled = <<>>
       /\ calc = [fn |-> "race", in |-> <<playbackState, mode>>, res |-> <<>>]
       /\ client = NoClients

\* the server takes up one of the requests in flight, whichever arrives first
Deliver(r) ==
  /\ r \in inflight
  /\ inflight' = inflight \ {r}
  /\ handled' = Append(handled, r)
  /\ UNCHANGED client
  /\ \/ /\ r.action \in Actions
        /\ Playback(r.socket, r.action, r.roomCode, r.playbackTime)
     \/ /\ r.action = "mode:change"
        /\ ModeChange(r.socket, r.roomCode, r.mode)
     \/ /\ r.action = "room:leave"
        /\ RoomLeave(r.socket)
     \/ /\ r.action = "playback:speed"
        /\ PlaybackSpeed(r.socket, r.roomCode, r.speed)

NextRace == \E r \in inflight : Deliver(r)

SpecRace == InitRace /\ [][NextRace]_vars

\* -------------------------------------------- pure functions, evaluated
\* the stored clocks a projection is evaluated on
Clocks ==
  [playbackTime : {Num(n) : n \in 0..MaxPos}, isPlaying : BOOLEAN,
   lastUpdateTimestamp : 0..MaxCalcTime, playbackRate : 0..MaxRate]

\* positions at, just below and just above each drift threshold
DriftPoints ==
  {0} \cup {th + d : th \in {minDriftForAdjustment, syncThreshold},
                     d \in (0 - MaxOff)..MaxOff}

\* the timestamps of two conflicting actions: a Date.now() value or none
Stamps == {Undefined} \cup {Num(n) : n \in 1..MaxStamp}

\* a video element playing at the normal rate
Video(currentTime) ==
  [currentTime |-> currentTime, paused |-> FALSE, playbackRate |-> 100]

InitCalc ==
  /\ now = 0
  /\ conn = <<>>
  /\ rooms = <<>>
  /\ intervals = {}
  /\ sioRooms = <<>>
  /\ out = <<>>
  /\ last = Done("init", 0, NoCode, TRUE, "", FALSE, FALSE)
  /\ steps = 0
  /\ scope = Scope({}, {}, 0)
  /\ inflight = {}
  /\ handled = <<>>
  /\ client = NoClients
  /\ \/ \E clock \in Clocks, t1 \in 0..MaxCalcTime, t2 \in 0..MaxCalcTime :
          calc = [fn |-> "project", in |-> <<clock, t1, t2>>, res |-> <<>>]
     \/ \E clientTime \in DriftPoints, serverTime \in DriftPoints :
          calc = [fn |-> "classify", in |-> <<clientTime, serverTime>>,
                  res |-> <<>>]
     \/ \E t1 \in Stamps, t2 \in Stamps :
          calc = [fn |-> "resolve",
                  in |-> <<[id |-> 1, timestamp |-> t1],
                           [id |-> 2, timestamp |-> t2]>>,
                  res |-> <<>>]

\* calculateCurrentPlaybackState at two instants
Project ==
  /\ calc.fn = "project" /\ calc.res = <<>>
  /\ calc' = [calc EXCEPT !.res =
                <<calculateCurrentPlaybackState(calc.in[1], calc.in[2]),
                  calculateCurrentPlaybackState(calc.in[1], calc.in[3])>>]
  /\ UNCHANGED <<now, conn, rooms, intervals, sioRooms, out, last, steps,
                 scope, inflight, handled, client>>

\* the server's strategy and the client's correction for one pair of
\* positions, the server's state being playing at rate 1
Classify ==
  /\ calc.fn = "classify" /\ calc.res = <<>>
  /\ LET clientTime == calc.in[1]
         serverTime == calc.in[2]
     IN calc' = [calc EXCEPT !.res =
                   <<getCorrectionStrategy(calculateDrift(clientTime, serverTime),
                                           clientTime, serverTime),
                     applySync(Video(clientTime), serverTime, TRUE, 1)>>]
  /\ UNCHANGED <<now, conn, rooms, intervals, sioRooms, out, last, steps,
                 scope, inflight, handled, client>>

\* resolveConflict on two actions
Resolve ==
  /\ calc.fn = "resolve" /\ calc.res = <<>>
  /\ calc' = [calc EXCEPT !.res = <<resolveConflict(calc.in[1], calc.in[2])>>]
  /\ UNCHANGED <<now, conn, rooms, intervals, sioRooms, out, last, steps,
                 scope, inflight, handled, client>>

NextCalc == Project \/ Classify \/ Resolve

SpecCalc == InitCalc /\ [][NextCalc]_vars

Spec == Init /\ [][Next]_vars

SpecRooms == InitRooms /\ [][Handlers]_vars

SpecFull == InitFull /\ [][Handlers]_vars

\* the timers of Node's event loop: a registered interval whose callback is
\* due is run, however many socket events are queued beside it
TimersFair ==
  \A roomCode \in 1..MaxCodes :
    WF_vars(UNCHANGED <<inflight, handled, client>> /\ SyncTick(roomCode))

SpecLive == Init /\ [][Next]_vars /\ TimersFair

\* ------------------------------------------- client: RoomContext, useSync
\* The pages behind the sockets. A page's state changes only through its
\* own listeners, and Socket.IO delivers to a socket in emission order, so
\* each handler's events are handed to the listeners in the step that emits
\* them: the states are those in which every emitted event has been processed.

\* a position further from the start than the hard-seek threshold
FarPosition == syncThreshold + minDriftForAdjustment

\* the useState defaults of RoomProvider and a video element not yet started
NewClient ==
  [roomCode |-> NoCode, isHost |-> FALSE, controlMode |-> "host-only",
   playbackState |-> [playbackTime |-> Num(0), isPlaying |-> FALSE,
                      playbackRate |-> 1],
   video |-> [currentTime |-> 0, paused |-> TRUE, playbackRate |-> 100]]

\* canControl() of RoomContext
clientCanControl(c) ==
  IF c.controlMode = "host-only" THEN c.isHost ELSE TRUE

\* the socket.on listeners of RoomProvider that keep room and playback state
Listen(c, event, data) ==
  CASE event = "room:created" ->
         [c EXCEPT !.roomCode = data.roomCode, !.isHost = data.isHost]
    [] event = "room:joined" ->
         [c EXCEPT !.roomCode = data.roomCode, !.isHost = data.isHost,
                   !.playbackState = data.playbackState,
                   !.controlMode = data.controlMode]
    [] event = "playback:sync" ->
         [c EXCEPT !.playbackState.playbackTime = data.playbackTime,
                   !.playbackState.isPlaying = data.isPlaying,
                   !.playbackState.playbackRate = data.playbackRate]
    [] event = "playback:play" ->
         [c EXCEPT !.playbackState.playbackTime = data.playbackTime,
                   !.playbackState.isPlaying = TRUE]
    [] event = "playback:pause" ->
         [c EXCEPT !.playbackState.playbackTime = data.playbackTime,
                   !.playbackState.isPlaying = FALSE]
    [] event = "playback:seek" ->
         [c EXCEPT !.playbackState.playbackTime = data.playbackTime]
    [] event = "mode:changed" ->
         [c EXCEPT !.controlMode = data.controlMode]
    [] OTHER -> c

\* the events msgs[i..] handed, in order, to the pages they are addressed to
RECURSIVE Receive(_, _, _)
Receive(cl, msgs, i) ==
  IF i > Len(msgs) THEN cl
  ELSE Receive([s \in DOMAIN cl |->
                  IF s \in msgs[i].to
                  THEN Listen(cl[s], msgs[i].event, msgs[i].data)
                  ELSE cl[s]],
               msgs, i + 1)

\* the server with its pages open, none of them in a room
InitClient ==
  /\ now = 0
  /\ conn = [s \in 1..MaxClientSockets |-> "connected"]
  /\ rooms = <<>>
  /\ intervals = {}
  /\ sioRooms = [c \in 1..MaxCodes |-> {}]
  /\ out = <<>>
  /\ last = Done("init", 0, NoCode, TRUE, "", FALSE, FALSE)
  /\ steps = 0
  /\ scope = Scope(1..MaxCodes, {Num(0), Num(FarPosition)}, 0)
  /\ inflight = {}
  /\ handled = <<>>
  /\ calc = NoCalc
  /\ client = [s \in 1..MaxClientSockets |-> NewClient]

\* createRoom of RoomContext, and the room:create handler with its events
clientCreateRoom(s) ==
  /\ RoomCreate(s)
  /\ client' = Receive(client, out', 1)

\* joinRoom of RoomContext, and the room:join handler with its events
clientJoinRoom(s, roomCode) ==
  /\ RoomJoin(s, roomCode)
  /\ client' = Receive(client, out', 1)

\* leaveRoom of RoomContext up to its emit, and the room:leave handler
clientLeaveRoom(s) ==
  /\ RoomLeave(s)
  /\ client' = Receive([client EXCEPT ![s].roomCode = NoCode,
                                      ![s].isHost = FALSE], out', 1)

\* socket.disconnect() or the page closed, and the disconnect handler
clientDisconnect(s) ==
  /\ Disconnect(s)
  /\ client' = Receive(client, out', 1)

\* togglePlay of VideoPlayer, and the playback:play / playback:pause handler
togglePlay(s) ==
  LET video == client[s].video IN
  /\ client[s].roomCode # NoCode
  /\ clientCanControl(client[s])
  /\ Playback(s, IF video.paused THEN "play" ELSE "pause",
              client[s].roomCode, Num(video.currentTime))
  /\ client' = Receive([client EXCEPT ![s].video.paused = ~video.paused],
                       out', 1)

\* seek of VideoPlayer, and the playback:seek handler
seek(s, time) ==
  /\ client[s].roomCode # NoCode
  /\ clientCanControl(client[s])
  /\ Playback(s, "seek", client[s].roomCode, time)
  /\ client' = Receive([client EXCEPT ![s].video.currentTime = time.v],
                       out', 1)

\* changeControlMode of RoomContext, and the mode:change handler
clientChangeControlMode(s, mode) ==
  /\ client[s].isHost
  /\ client[s].roomCode # NoCode
  /\ ModeChange(s, client[s].roomCode, mode)
  /\ client' = Receive(client, out', 1)

\* the server's tick and the playback:sync listeners
clientSyncTick(roomCode) ==
  /\ SyncTick(roomCode)
  /\ client' = Receive(client, out', 1)

\* the setInterval callback of useSync on the page of socket s
syncInterval(s) ==
  LET c == client[s] IN
  /\ conn[s] = "connected"
  /\ c.roomCode # NoCode
  /\ client' = [client EXCEPT ![s].video =
                  IF ~clientCanControl(c)
                  THEN applySync(c.video, c.playbackState.playbackTime.v,
                                 c.playbackState.isPlaying,
                                 c.playbackState.playbackRate)
                  ELSE @]
  /\ UNCHANGED <<now, conn, rooms, intervals, sioRooms, out, last, steps,
                 scope, inflight, handled, calc>>

NextClient ==
  \/ /\ UNCHANGED <<inflight, handled>>
     /\ \/ \E s \in DOMAIN conn : clientCreateRoom(s)
        \/ \E s \in DOMAIN conn, roomCode \in scope.codes :
             clientJoinRoom(s, roomCode)
        \/ \E s \in DOMAIN conn : clientLeaveRoom(s)
        \/ \E s \in DOMAIN conn : clientDisconnect(s)
        \/ \E s \in DOMAIN conn : togglePlay(s)
        \/ \E s \in DOMAIN conn, time \in scope.positions : seek(s, time)
        \/ \E s \in DOMAIN conn, mode \in {"host-only", "shared"} :
             clientChangeControlMode(s, mode)
        \/ \E roomCode \in scope.codes : clientSyncTick(roomCode)
  \/ \E s \in DOMAIN conn : syncInterval(s)

\* the browser runs the page's interval callback when it is due
PagesFair == \A s \in 1..MaxClientSockets : WF_vars(syncInterval(s))

SpecClient == InitClient /\ [][NextClient]_vars /\ PagesFair

\* ============================================================== claims
\* the handler that has just run was a play, pause or seek request
IsControl(l) == l.op \in Actions

IsLeave(l) == l.op \in {"room:leave", "disconnect"}

\* C1: in a host-only room a play, pause or seek request from a socket that
\* is not the host is answered with an error and leaves the room's
\* playback state as it was.
C1_HostOnlyNonHostRejected ==
  [][\A c \in RoomCodes(rooms) :
       (/\ IsControl(last') /\ last'.roomCode = c
        /\ getRoom(rooms, c).controlMode = "host-only"
        /\ last'.socket # getRoom(rooms, c).hostSocketId)
       => /\ ~last'.ok
          /\ out' = <<Msg("playback:error", {last'.socket},
                          [error |-> "No control permission"])>>
          /\ HasRoom(rooms', c)
          /\ getRoom(rooms', c).playbackState = getRoom(rooms, c).playbackState
     ]_vars

\* a guest's request has just been refused in a host-only room that is playing
C1_Witness ==
  /\ IsControl(last) /\ ~last.ok /\ last.error = "No control permission"
  /\ HasRoom(rooms, last.roomCode)
  /\ getRoom(rooms, last.roomCode).controlMode = "host-only"
  /\ getRoom(rooms, last.roomCode).hostSocketId # last.socket
  /\ MapHas(getRoom(rooms, last.roomCode).participants, last.socket)
  /\ getRoom(rooms, last.roomCode).playbackState.isPlaying

\* C2: a mode:change from a socket that is not the room's host is refused,
\* whatever the current mode and the requested mode, and the mode stays.
C2_NonHostModeChangeRejected ==
  [][\A c \in RoomCodes(rooms) :
       (/\ last'.op = "mode:change" /\ last'.roomCode = c
        /\ last'.socket # getRoom(rooms, c).hostSocketId)
       => /\ ~last'.ok
          /\ out' = <<Msg("mode:error", {last'.socket},
                          [error |-> "Only host can change control mode"])>>
          /\ HasRoom(rooms', c)
          /\ getRoom(rooms', c).controlMode = getRoom(rooms, c).controlMode
     ]_vars

\* a guest's mode:change has just been refused in a room in shared mode
C2_Witness ==
  /\ last.op = "mode:change" /\ ~last.ok
  /\ last.error = "Only host can change control mode"
  /\ HasRoom(rooms, last.roomCode)
  /\ getRoom(rooms, last.roomCode).controlMode = "shared"
  /\ getRoom(rooms, last.roomCode).hostSocketId # last.socket

\* C3: for every room and every participant p of it, p.isHost holds exactly
\* when p.socketId is the room's hostSocketId (so exactly one participant of
\* a room is flagged as host).
C3_IsHostIffHostSocket ==
  \A i \in 1..Len(rooms) :
    \A j \in 1..Len(rooms[i].participants) :
      rooms[i].participants[j].isHost
        <=> (rooms[i].participants[j].socketId = rooms[i].hostSocketId)

\* C4: the hostSocketId of every room in the registry is a key of that
\* room's participant map.
C4_HostIsParticipant ==
  \A i \in 1..Len(rooms) : MapHas(rooms[i].participants, rooms[i].hostSocketId)

\* a host has just left and another participant has taken over
C4_Witness ==
  /\ IsLeave(last) /\ last.wasHost /\ ~last.roomDeleted
  /\ HasRoom(rooms, last.roomCode)
  /\ getRoom(rooms, last.roomCode).hostSocketId # last.socket

\* C5: no room in the registry has zero participants: the leave or
\* disconnect that removes the last participant removes the room with it.
C5_NoEmptyRoom ==
  /\ \A i \in 1..Len(rooms) : Len(rooms[i].participants) > 0
  /\ (IsLeave(last) /\ last.roomDeleted) => ~HasRoom(rooms, last.roomCode)

\* the last participant of a room has just left while another room lives on
C5_Witness ==
  /\ IsLeave(last) /\ last.roomDeleted
  /\ ~HasRoom(rooms, last.roomCode)
  /\ Len(rooms) > 0

\* C6: when the host leaves a room that keeps at least one participant, the
\* room's new hostSocketId is one of the participants that remain, not the
\* departed socket.
C6_NewHostAmongRemaining ==
  [][\A c \in RoomCodes(rooms) :
       (/\ IsLeave(last') /\ last'.roomCode = c
        /\ getRoom(rooms, c).hostSocketId = last'.socket
        /\ Keys(getRoom(rooms, c).participants) \ {last'.socket} # {})
       => /\ HasRoom(rooms', c)
          /\ getRoom(rooms', c).hostSocketId # last'.socket
          /\ getRoom(rooms', c).hostSocketId
               \in Keys(getRoom(rooms, c).participants) \ {last'.socket}
          /\ getRoom(rooms', c).hostSocketId
               \in Keys(getRoom(rooms', c).participants)
     ]_vars

\* a host has just left a room of three
C6_Witness ==
  /\ IsLeave(last) /\ last.wasHost /\ ~last.roomDeleted
  /\ HasRoom(rooms, last.roomCode)
  /\ Len(getRoom(rooms, last.roomCode).participants) = 2
  /\ ~MapHas(getRoom(rooms, last.roomCode).participants, last.socket)

\* C7: after the host leaves a host-only room that keeps other participants,
\* every remaining participant is sent a participant list that flags the
\* promoted member, and only it, as host; from then on the promoted host's
\* play, pause and seek requests are accepted and applied, and those of the
\* other members are refused.
C7_PromotedHostTakesOver ==
  [][\A c \in RoomCodes(rooms) :
       LET room == getRoom(rooms, c) IN
       /\ (/\ IsLeave(last') /\ last'.roomCode = c
           /\ room.hostSocketId = last'.socket
           /\ room.controlMode = "host-only"
           /\ Keys(room.participants) \ {last'.socket} # {})
          => /\ HasRoom(rooms', c)
             /\ \E i \in 1..Len(out') :
                  /\ out'[i].event = "room:participants"
                  /\ Keys(getRoom(rooms', c).participants) \subseteq out'[i].to
                  /\ out'[i].data.participants = getRoom(rooms', c).participants
                  /\ \A j \in 1..Len(out'[i].data.participants) :
                       out'[i].data.participants[j].isHost
                         <=> (out'[i].data.participants[j].socketId
                                = getRoom(rooms', c).hostSocketId)
       /\ (/\ IsControl(last') /\ last'.roomCode = c
           /\ room.controlMode = "host-only")
          => /\ HasRoom(rooms', c)
             /\ IF last'.socket = room.hostSocketId
                THEN /\ last'.ok
                     /\ getRoom(rooms', c).playbackState.lastUpdateTimestamp = now
                     /\ (last'.op = "play")
                          => getRoom(rooms', c).playbackState.isPlaying
                     /\ (last'.op = "pause")
                          => ~getRoom(rooms', c).playbackState.isPlaying
                     /\ out'[1].event = "playback:" \o last'.op
                ELSE /\ ~last'.ok
                     /\ getRoom(rooms', c).playbackState = room.playbackState
     ]_vars

\* C8: no room ever holds more than MAX_PARTICIPANTS participants: a
\* room:join against a room that already holds that many is answered with
\* 'Room is full' and adds nobody.
C8_RoomNeverOverFull ==
  [][/\ \A i \in 1..Len(rooms') :
          Len(rooms'[i].participants) <= MAX_PARTICIPANTS
     /\ \A c \in RoomCodes(rooms) :
          (/\ last'.op = "room:join" /\ last'.roomCode = c
           /\ Len(getRoom(rooms, c).participants) >= MAX_PARTICIPANTS)
          => /\ ~last'.ok
             /\ out' = <<Msg("room:error", {last'.socket},
                             [error |-> "Room is full"])>>
             /\ rooms' = rooms
     ]_vars

\* a join has just been refused by a room holding MAX_PARTICIPANTS sockets
C8_Witness ==
  /\ last.op = "room:join" /\ ~last.ok /\ last.error = "Room is full"
  /\ HasRoom(rooms, last.roomCode)
  /\ Len(getRoom(rooms, last.roomCode).participants) = MAX_PARTICIPANTS
  /\ ~MapHas(getRoom(rooms, last.roomCode).participants, last.socket)

\* C9: a successful room:join sends the joining socket, in the step of the
\* join, a room:joined event whose playback state and control mode are the
\* ones the room stores at that moment.
C9_JoinSnapshot ==
  [][(last'.op = "room:join" /\ last'.ok)
       => /\ HasRoom(rooms, last'.roomCode) /\ HasRoom(rooms', last'.roomCode)
          /\ \E i \in 1..Len(out') :
               /\ out'[i].event = "room:joined"
               /\ out'[i].to = {last'.socket}
               /\ out'[i].data.playbackState
                    = getRoom(rooms, last'.roomCode).playbackState
               /\ out'[i].data.playbackState
                    = getRoom(rooms', last'.roomCode).playbackState
               /\ out'[i].data.controlMode
                    = getRoom(rooms', last'.roomCode).controlMode
               /\ \A j \in 1..Len(out') :
                    out'[j].event = "playback:sync" => i < j
     ]_vars

\* a socket has just joined a room that is playing in shared mode
C9_Witness ==
  /\ last.op = "room:join" /\ last.ok
  /\ HasRoom(rooms, last.roomCode)
  /\ getRoom(rooms, last.roomCode).playbackState.isPlaying
  /\ getRoom(rooms, last.roomCode).playbackState.playbackTime = Num(1)
  /\ getRoom(rooms, last.roomCode).controlMode = "shared"
  /\ getRoom(rooms, last.roomCode).playbackState.lastUpdateTimestamp < now

\* C10: room:create makes a room under a code no room of the registry has,
\* with the creating socket as its only participant and its host, in
\* host-only mode, its clock at 0, paused, at rate 1; the rooms that were
\* there stay as they were.
C10_CreateFreshRoom ==
  [][(last'.op = "room:create")
       => LET c == last'.roomCode IN
          /\ last'.ok
          /\ ~HasRoom(rooms, c)
          /\ HasRoom(rooms', c)
          /\ getRoom(rooms', c).participants
               = <<[socketId |-> last'.socket, isHost |-> TRUE]>>
          /\ getRoom(rooms', c).hostSocketId = last'.socket
          /\ getRoom(rooms', c).controlMode = "host-only"
          /\ getRoom(rooms', c).playbackState.playbackTime = Num(0)
          /\ ~getRoom(rooms', c).playbackState.isPlaying
          /\ getRoom(rooms', c).playbackState.playbackRate = 1
          /\ Len(rooms') = Len(rooms) + 1
          /\ \A i \in 1..Len(rooms) : rooms'[i] = rooms[i]
     ]_vars

\* a room has just been created next to a room that is playing
C10_Witness ==
  /\ last.op = "room:create" /\ last.ok
  /\ Len(rooms) = 2
  /\ rooms[2].roomCode = last.roomCode
  /\ rooms[1].playbackState.isPlaying

\* C11: after every handler a sync interval is registered for a room code
\* exactly when a room with that code is in the registry: the timer starts
\* with the room and is cleared with it.
C11_IntervalIffRoom == intervals = RoomCodes(rooms)

\* a room has just been destroyed while another room's timer runs on
C11_Witness ==
  /\ IsLeave(last) /\ last.roomDeleted
  /\ last.roomCode \notin intervals
  /\ intervals # {}
  /\ \A c \in intervals : HasRoom(rooms, c)

\* C12: no playback:sync is emitted for a destroyed room: every playback:sync
\* comes from the tick of a room that is in the registry, the handler that
\* destroys a room clears its timer in the same step, and a tick that finds
\* no room emits nothing and clears itself.
C12_NoSyncAfterDestroy ==
  /\ \A i \in 1..Len(out) :
       out[i].event = "playback:sync"
         => last.op = "tick" /\ HasRoom(rooms, last.roomCode)
  /\ (IsLeave(last) /\ last.roomDeleted) => last.roomCode \notin intervals
  /\ (last.op = "tick" /\ ~HasRoom(rooms, last.roomCode))
       => out = <<>> /\ last.roomCode \notin intervals
  /\ \A c \in intervals : HasRoom(rooms, c)

\* the last room has just been destroyed and no timer is left to fire
C12_Witness ==
  /\ IsLeave(last) /\ last.roomDeleted
  /\ rooms = <<>>
  /\ intervals = {}

\* C13: once a socket's disconnect has been handled, the socket is neither a
\* participant nor the host of any room.
C13_DisconnectedSocketNowhere ==
  \A s \in DOMAIN conn :
    conn[s] = "gone"
      => \A i \in 1..Len(rooms) :
           /\ ~MapHas(rooms[i].participants, s)
           /\ rooms[i].hostSocketId # s

\* C14: every playback:sync tick of a room carries the room's stored
\* isPlaying and playbackRate, and as playbackTime the stored playbackTime
\* plus, while playing, the time elapsed since lastUpdateTimestamp times
\* playbackRate (nothing added while paused).
C14_TickCarriesProjection ==
  (last.op = "tick" /\ HasRoom(rooms, last.roomCode))
    => LET ps == getRoom(rooms, last.roomCode).playbackState IN
       /\ Len(out) = 1
       /\ out[1].event = "playback:sync"
       /\ out[1].data.isPlaying = ps.isPlaying
       /\ out[1].data.playbackRate = ps.playbackRate
       /\ out[1].data.playbackTime =
            IF ps.isPlaying
            THEN JsAdd(ps.playbackTime,
                       Num((now - ps.lastUpdateTimestamp) * ps.playbackRate))
            ELSE ps.playbackTime

\* a tick of a playing room some time after its last update
C14_Witness ==
  /\ last.op = "tick" /\ HasRoom(rooms, last.roomCode)
  /\ getRoom(rooms, last.roomCode).playbackState.isPlaying
  /\ getRoom(rooms, last.roomCode).playbackState.playbackTime = Num(MaxPos)
  /\ getRoom(rooms, last.roomCode).playbackState.lastUpdateTimestamp < now
  /\ Len(out) = 1
  /\ out[1].data.playbackTime.v > MaxPos

\* C15: an accepted play, pause or seek request stamps the room's
\* lastUpdateTimestamp with the current instant; every other step (tick,
\* join, leave, mode change, rejected request, a request for another room)
\* leaves the room's stored playback state as it was.
C15_StampOnlyOnAcceptedControl ==
  [][\A c \in RoomCodes(rooms) \cap RoomCodes(rooms') :
       IF IsControl(last') /\ last'.ok /\ last'.roomCode = c
       THEN getRoom(rooms', c).playbackState.lastUpdateTimestamp = now'
       ELSE getRoom(rooms', c).playbackState = getRoom(rooms, c).playbackState
    ]_vars

\* a request accepted after the clock has moved on since the room's creation
C15_Witness ==
  /\ IsControl(last) /\ last.ok
  /\ HasRoom(rooms, last.roomCode)
  /\ now > 0
  /\ getRoom(rooms, last.roomCode).playbackState.lastUpdateTimestamp = now
  /\ ~getRoom(rooms, last.roomCode).playbackState.isPlaying

\* C16: for a stored clock that is playing at a positive rate, the position
\* calculateCurrentPlaybackState projects does not decrease from an instant
\* t1 to a later instant t2, both at or after lastUpdateTimestamp; for a
\* paused clock the projection is the stored position at every instant.
C16_ProjectionMonotone ==
  (calc.fn = "project" /\ calc.res # <<>>)
    => LET clock == calc.in[1]
           t1 == calc.in[2]
           t2 == calc.in[3]
           p1 == calc.res[1].playbackTime
           p2 == calc.res[2].playbackTime
       IN /\ (/\ clock.isPlaying /\ clock.playbackRate > 0
              /\ clock.lastUpdateTimestamp <= t1 /\ t1 <= t2)
               => p1.t = "num" /\ p2.t = "num" /\ p1.v <= p2.v
          /\ ~clock.isPlaying
               => p1 = clock.playbackTime /\ p2 = clock.playbackTime

\* a playing clock projected at two different instants after its last update
C16_Witness ==
  /\ calc.fn = "project" /\ calc.res # <<>>
  /\ calc.in[1].isPlaying /\ calc.in[1].playbackRate > 1
  /\ calc.in[1].lastUpdateTimestamp < calc.in[2]
  /\ calc.in[2] < calc.in[3]
  /\ calc.res[1].playbackTime.v < calc.res[2].playbackTime.v

\* the positions of a classification that has been evaluated
Classified == calc.fn = "classify" /\ calc.res # <<>>

\* the outcome a server strategy stands for
ServerOutcome(strategy) ==
  IF strategy.type = "seek" THEN "seek"
  ELSE IF strategy.adjustment = 105 THEN "speed-up"
  ELSE IF strategy.adjustment = 95 THEN "slow-down"
  ELSE "in-sync"

\* the outcome the client's correction of a video element stands for
ClientOutcome(before, after) ==
  IF after.currentTime # before.currentTime THEN "seek"
  ELSE IF after.playbackRate = 105 THEN "speed-up"
  ELSE IF after.playbackRate = 95 THEN "slow-down"
  ELSE "in-sync"

C18_GradualDirection ==
  Classified
    => LET clientTime == calc.in[1]
           serverTime == calc.in[2]
           strategy == calc.res[1]
           video == calc.res[2]
       IN /\ strategy.type = "gradual"
               => /\ 95 <= strategy.adjustment /\ strategy.adjustment <= 105
                  /\ strategy.adjustment # 100
                       => /\ clientTime < serverTime => strategy.adjustment = 105
                          /\ clientTime > serverTime => strategy.adjustment = 95
                          /\ clientTime # serverTime
          /\ 95 <= video.playbackRate /\ video.playbackRate <= 105
          /\ video.playbackRate # 100
               => /\ clientTime < serverTime => video.playbackRate = 105
                  /\ clientTime > serverTime => video.playbackRate = 95
                  /\ clientTime # serverTime

\* an observer behind the projection by a gradual drift has been sped up
C18_Witness ==
  /\ Classified
  /\ calc.in[1] < calc.in[2]
  /\ calc.res[1].type = "gradual"
  /\ calc.res[1].adjustment = 105
  /\ calc.res[2].playbackRate = 105

\* C19: for every pair of observed and projected position the server's
\* getCorrectionStrategy and the client's applySync choose the same outcome
\* among in-sync, speed-up, slow-down and hard seek.
C19_SameClassification ==
  Classified
    => ServerOutcome(calc.res[1])
         = ClientOutcome(Video(calc.in[1]), calc.res[2])

\* C20: in a shared room, once two seek requests sent by two different
\* members have both been handled, in whichever order, the room's
\* playbackTime is exactly the value of the request handled last, and
\* isPlaying and playbackRate are what the room had before the two seeks.
C20_LastSeekWins ==
  (/\ calc.fn = "race" /\ Len(handled) = 2
   /\ handled[1].action = "seek" /\ handled[2].action = "seek"
   /\ handled[1].socket # handled[2].socket
   /\ getRoom(rooms, 1).controlMode = "shared")
    => LET ps == getRoom(rooms, 1).playbackState
           before == calc.in[1]
       IN /\ ps.playbackTime = handled[2].playbackTime
          /\ ps.isPlaying = before.isPlaying
          /\ ps.playbackRate = before.playbackRate

\* the member's seek was handled first and the host's seek, to an earlier
\* position, last, in a playing shared room
C20_Witness ==
  /\ calc.fn = "race" /\ Len(handled) = 2
  /\ handled[1].action = "seek" /\ handled[2].action = "seek"
  /\ handled[1].socket = 2 /\ handled[2].socket = 1
  /\ handled[1].playbackTime = Num(MaxPos)
  /\ handled[2].playbackTime = Num(0)
  /\ getRoom(rooms, 1).controlMode = "shared"
  /\ calc.in[1].isPlaying
  /\ getRoom(rooms, 1).playbackState.playbackTime = Num(0)
  /\ last.ok

\* the control mode and host in force in room c let socket s control
Authorized(rs, c, s) ==
  /\ HasRoom(rs, c)
  /\ \/ getRoom(rs, c).controlMode = "shared"
     \/ getRoom(rs, c).hostSocketId = s

\* C21: in every interleaving of a member's play, pause or seek request
\* with the host's mode change or the host's leaving, a request is accepted,
\* and the room's clock changes, only if the control mode and the host in
\* force at the start of the very step that commits the change authorize
\* the requester.
C21_AuthorizedAtCommit ==
  [][/\ (IsControl(last') /\ last'.ok)
          => Authorized(rooms, last'.roomCode, last'.socket)
     /\ \A c \in RoomCodes(rooms) \cap RoomCodes(rooms') :
          getRoom(rooms', c).playbackState # getRoom(rooms, c).playbackState
            => /\ IsControl(last') /\ last'.roomCode = c
               /\ Authorized(rooms, c, last'.socket)
    ]_vars

\* the host's change to host-only overtook the member's request, which was
\* sent while the room was shared and is rejected
C21_Witness ==
  /\ calc.fn = "race" /\ Len(handled) = 2
  /\ calc.in[2] = "shared"
  /\ handled[1] = ModeRequest(1, 1, "host-only")
  /\ handled[2].socket = 2
  /\ IsControl(last) /\ ~last.ok /\ last.error = "No control permission"
  /\ getRoom(rooms, 1).playbackState = calc.in[1]

\* the participants of a room whose connection is alive
Members(room) == {s \in Keys(room.participants) : conn[s] = "connected"}

\* C22: the handler that accepts a play, pause or seek request emits, in
\* the same step as the mutation, exactly one playback:play, playback:pause
\* or playback:seek event, named after the request, to every connected
\* participant of the room, the requester included when it is one.
C22_ControlEchoedToAll ==
  (IsControl(last) /\ last.ok)
    => LET room == getRoom(rooms, last.roomCode) IN
       /\ Len(out) = 1
       /\ out[1].event = "playback:" \o last.op
       /\ out[1].to = Members(room)
       /\ MapHas(room.participants, last.socket) => last.socket \in out[1].to

\* a non-host participant's request accepted in a room of two
C22_Witness ==
  /\ IsControl(last) /\ last.ok /\ ~last.wasHost
  /\ Len(out) = 1
  /\ out[1].to = {1, 2}
  /\ last.socket \in out[1].to
  /\ Members(getRoom(rooms, last.roomCode)) = {1, 2}

\* C23: an accepted play, pause or seek request carrying a position p >= 0,
\* p = 0 included, leaves the room's stored playbackTime at p and is echoed
\* with playbackTime p; play sets isPlaying, pause clears it and seek leaves
\* it as it was.
C23_PositionApplied ==
  [][LET r == handled'[Len(handled')]
         before == getRoom(rooms, 1).playbackState
         after == getRoom(rooms', 1).playbackState
     IN (/\ Len(handled') > Len(handled)
         /\ r.action \in Actions /\ last'.ok
         /\ r.playbackTime.t = "num")
          => /\ after.playbackTime = r.playbackTime
             /\ Len(out') = 1
             /\ out'[1].data.playbackTime = r.playbackTime
             /\ r.action = "play" => after.isPlaying
             /\ r.action = "pause" => ~after.isPlaying
             /\ r.action = "seek" => after.isPlaying = before.isPlaying
    ]_vars

\* the handler that has just run turned down a join, control or mode request
IsRejected(l) ==
  l.op \in ({"room:join", "mode:change"} \cup Actions) /\ ~l.ok

\* the error event each kind of request is answered with
ErrorEvent(op) ==
  IF op = "room:join" THEN "room:error"
  ELSE IF op = "mode:change" THEN "mode:error"
  ELSE "playback:error"

\* C24: a join, control or mode request that is not applied is answered
\* with exactly one error event, carrying the reason, to the requesting
\* socket and with no event to any other socket.
C24_RejectionToldToRequester ==
  IsRejected(last)
    => /\ Len(out) = 1
       /\ out[1].event = ErrorEvent(last.op)
       /\ out[1].to = {last.socket}
       /\ out[1].data.error = last.error
       /\ last.error \in {"Room not found", "Room is full",
                          "No control permission",
                          "Only host can change control mode",
                          "Invalid control mode"}

\* a join with a code no room has, while nobody else is told
C24_Witness ==
  /\ last.op = "room:join" /\ ~last.ok /\ last.error = "Room not found"
  /\ Len(out) = 1
  /\ out[1].event = "room:error"
  /\ out[1].to = {last.socket}

\* C25: a rejected join, control or mode request leaves the registry as it
\* was: the rooms with their participants, host, control mode and playback
\* state, the running sync intervals and the sockets joined to each room.
C25_RejectionChangesNothing ==
  [][IsRejected(last')
       => /\ rooms' = rooms
          /\ intervals' = intervals
          /\ sioRooms' = sioRooms
          /\ conn' = conn
    ]_vars

\* a pause without permission turned down in a running room of three
C25_Witness ==
  /\ last.op = "pause" /\ ~last.ok
  /\ HasRoom(rooms, last.roomCode)
  /\ Len(getRoom(rooms, last.roomCode).participants) = 3
  /\ getRoom(rooms, last.roomCode).playbackState.isPlaying
  /\ intervals = {last.roomCode}

\* C26: a room's control mode is 'host-only' or 'shared' at all times and
\* 'host-only' when the room is created; a mode:change by the host fails
\* only for an invalid mode and then leaves the mode as it was, and where it
\* succeeds the mode is the requested one and mode:changed announces it to
\* every connected participant.
C26_ModeValidAndAnnounced ==
  [][/\ \A i \in 1..Len(rooms') :
          rooms'[i].controlMode \in {"host-only", "shared"}
     /\ last'.op = "room:create"
          => getRoom(rooms', last'.roomCode).controlMode = "host-only"
     /\ (last'.op = "mode:change" /\ last'.wasHost)
          => LET c == last'.roomCode IN
             IF last'.ok
             THEN /\ Len(out') = 1
                  /\ out'[1].event = "mode:changed"
                  /\ out'[1].data.controlMode \in {"host-only", "shared"}
                  /\ getRoom(rooms', c).controlMode = out'[1].data.controlMode
                  /\ out'[1].to = Members(getRoom(rooms', c))
             ELSE /\ last'.error = "Invalid control mode"
                  /\ getRoom(rooms', c).controlMode = getRoom(rooms, c).controlMode
    ]_vars

\* the host's request for an unknown mode turned down in a shared room
C26_Witness ==
  /\ last.op = "mode:change" /\ last.wasHost /\ ~last.ok
  /\ last.error = "Invalid control mode"
  /\ getRoom(rooms, last.roomCode).controlMode = "shared"
  /\ Len(getRoom(rooms, last.roomCode).participants) > 1

\* C27: in a shared room a play, pause or seek request from any participant
\* of the room, host or not, is accepted and applied to the room's clock:
\* the clock is stamped with the current instant, play sets isPlaying, pause
\* clears it and seek keeps it.
C27_SharedParticipantAccepted ==
  [][\A c \in RoomCodes(rooms) :
       (/\ IsControl(last') /\ last'.roomCode = c
        /\ getRoom(rooms, c).controlMode = "shared"
        /\ MapHas(getRoom(rooms, c).participants, last'.socket))
         => LET before == getRoom(rooms, c).playbackState
                after == getRoom(rooms', c).playbackState
            IN /\ last'.ok
               /\ after.lastUpdateTimestamp = now'
               /\ last'.op = "play" => after.isPlaying
               /\ last'.op = "pause" => ~after.isPlaying
               /\ last'.op = "seek" => after.isPlaying = before.isPlaying
    ]_vars

\* a participant that is not the host has paused a shared room
C27_Witness ==
  /\ last.op = "pause" /\ last.ok /\ ~last.wasHost
  /\ getRoom(rooms, last.roomCode).controlMode = "shared"
  /\ MapHas(getRoom(rooms, last.roomCode).participants, last.socket)
  /\ ~getRoom(rooms, last.roomCode).playbackState.isPlaying
  /\ getRoom(rooms, last.roomCode).playbackState.lastUpdateTimestamp = now

\* C28: an offer, answer or ICE candidate is forwarded to its target only if
\* some room has both the sender and the target among its participants;
\* where it is forwarded, it goes to the target alone and names the sender.
C28_SignalOnlyWithinRoom ==
  (last.op \in Signals)
    => /\ Len(out) = 1
       /\ out[1].data.fromSocketId = last.socket
       /\ Cardinality(out[1].to) <= 1
       /\ \A t \in out[1].to :
            \E i \in 1..Len(rooms) :
              /\ MapHas(rooms[i].participants, last.socket)
              /\ MapHas(rooms[i].participants, t)

\* C29: a speed change carrying a positive rate r from a socket the control
\* mode authorizes is accepted: the room's playbackRate becomes r, the
\* clock is stamped and the change is sent to every connected participant;
\* from a socket without permission it is answered with an error.
C29_SetRateApplied ==
  [][LET r == handled'[Len(handled')] IN
     (Len(handled') > Len(handled) /\ r.action = "playback:speed")
       => IF Authorized(rooms, r.roomCode, r.socket)
          THEN LET room == getRoom(rooms', r.roomCode) IN
               /\ room.playbackState.playbackRate = r.speed
               /\ room.playbackState.lastUpdateTimestamp = now'
               /\ Len(out') = 1
               /\ out'[1].to = Members(room)
          ELSE /\ Len(out') = 1
               /\ out'[1].to = {r.socket}
    ]_vars

\* C30: after a successful join, and after a leave or disconnect that does
\* not destroy the room, room:participants goes to every current member of
\* the room and carries the room's participant list as the registry holds
\* it; no socket that has departed is in the list or among the recipients.
C30_ParticipantsAnnounced ==
  (\/ last.op = "room:join" /\ last.ok
   \/ IsLeave(last) /\ last.ok /\ ~last.roomDeleted)
    => LET room == getRoom(rooms, last.roomCode) IN
       /\ \E i \in 1..Len(out) :
            /\ out[i].event = "room:participants"
            /\ out[i].data.participants = room.participants
            /\ out[i].to = Keys(room.participants)
       /\ \A s \in Keys(room.participants) : conn[s] = "connected"
       /\ IsLeave(last) => last.socket \notin Keys(room.participants)

\* the socket other than s that was inserted earliest into a participant map
EarliestOther(participants, s) ==
  LET IsOther(p) == p.socketId # s
  IN SelectSeq(participants, IsOther)[1].socketId

\* C32: when the host leaves and others remain, the new host is the
\* remaining participant that was inserted earliest into the room's
\* participant map.
C32_EarliestBecomesHost ==
  [][\A c \in RoomCodes(rooms) :
       (/\ IsLeave(last') /\ last'.roomCode = c
        /\ getRoom(rooms, c).hostSocketId = last'.socket
        /\ Keys(getRoom(rooms, c).participants) \ {last'.socket} # {})
       => /\ HasRoom(rooms', c)
          /\ getRoom(rooms', c).hostSocketId
               = EarliestOther(getRoom(rooms, c).participants, last'.socket)
     ]_vars

\* the host has left a room of three and the earlier of the two that remain,
\* which has the larger socket id, is the host
C32_Witness ==
  /\ IsLeave(last) /\ last.wasHost /\ ~last.roomDeleted
  /\ HasRoom(rooms, last.roomCode)
  /\ Len(getRoom(rooms, last.roomCode).participants) = 2
  /\ getRoom(rooms, last.roomCode).hostSocketId
       = getRoom(rooms, last.roomCode).participants[1].socketId
  /\ getRoom(rooms, last.roomCode).participants[1].socketId
       > getRoom(rooms, last.roomCode).participants[2].socketId

\* C33: a play, pause or seek request that names a room the requesting
\* socket is not a participant of leaves that room's playback state as it
\* was and sends nothing to anyone but the requester, in either mode.
C33_OutsiderCannotControl ==
  [][\A c \in RoomCodes(rooms) :
       (/\ IsControl(last') /\ last'.roomCode = c
        /\ ~MapHas(getRoom(rooms, c).participants, last'.socket))
         => /\ getRoom(rooms', c).playbackState = getRoom(rooms, c).playbackState
            /\ \A i \in 1..Len(out') : out'[i].to \subseteq {last'.socket}
    ]_vars

\* C34: a socket id is a participant of at most one room.
C34_AtMostOneRoom ==
  \A s \in DOMAIN conn :
    Cardinality({i \in 1..Len(rooms) : MapHas(rooms[i].participants, s)}) <= 1

\* C35: a handler or tick that concerns one room leaves every other room's
\* participants, host, control mode and playback state as they were and
\* leaves its sync interval running.
C35_RoomsIsolated ==
  [][\A b \in RoomCodes(rooms) :
       b # last'.roomCode
         => /\ HasRoom(rooms', b)
            /\ getRoom(rooms', b) = getRoom(rooms, b)
            /\ b \in intervals'
    ]_vars

\* the host of one room has made it shared while the other room, playing,
\* stays host-only
C35_Witness ==
  /\ last.op = "mode:change" /\ last.ok
  /\ Len(rooms) = 2
  /\ getRoom(rooms, last.roomCode).controlMode = "shared"
  /\ \E i \in 1..2 :
       /\ rooms[i].roomCode # last.roomCode
       /\ rooms[i].controlMode = "host-only"
       /\ rooms[i].playbackState.isPlaying
       /\ rooms[i].roomCode \in intervals

\* C36: every room's stored playbackTime is a defined number in every
\* reachable state, whatever payload an accepted request carried.
C36_PositionIsNumber ==
  \A i \in 1..Len(rooms) : rooms[i].playbackState.playbackTime.t = "num"

\* C39: resolveConflict(action1, action2) returns the action whose
\* timestamp is strictly greater, and action2 when the two timestamps are
\* equal or one of them is missing.
C39_LatestActionWins ==
  (calc.fn = "resolve" /\ calc.res # <<>>)
    => LET action1 == calc.in[1]
           action2 == calc.in[2]
           winner == calc.res[1]
       IN IF action1.timestamp.t = "num" /\ action2.timestamp.t = "num"
          THEN /\ action1.timestamp.v > action2.timestamp.v => winner = action1
               /\ action1.timestamp.v < action2.timestamp.v => winner = action2
               /\ action1.timestamp.v = action2.timestamp.v => winner = action2
          ELSE winner = action2

\* the first action carries the later timestamp and wins
C39_Witness ==
  /\ calc.fn = "resolve" /\ calc.res # <<>>
  /\ calc.in[1].timestamp.t = "num" /\ calc.in[2].timestamp.t = "num"
  /\ calc.in[1].timestamp.v > calc.in[2].timestamp.v
  /\ calc.res[1].id = 1

\* the step just taken was a tick of roomCode that emitted playback:sync
TickEmitted(roomCode) ==
  /\ last.op = "tick" /\ last.roomCode = roomCode
  /\ Len(out) = 1 /\ out[1].event = "playback:sync"

\* C31: with the timers scheduled fairly, a room that exists has a
\* playback:sync tick emitted after every point of its life, or is destroyed:
\* the ticks go on for as long as the room does, whatever control, join or
\* leave events come in between.
C31_TicksKeepComing ==
  \A roomCode \in 1..MaxCodes :
    [](HasRoom(rooms, roomCode)
         => <>(~HasRoom(rooms, roomCode) \/ TickEmitted(roomCode)))

\* a tick of a room that a join, a mode change and a play came before
C31_Witness ==
  /\ TickEmitted(last.roomCode)
  /\ HasRoom(rooms, last.roomCode)
  /\ Len(getRoom(rooms, last.roomCode).participants) > 1
  /\ getRoom(rooms, last.roomCode).controlMode = "shared"
  /\ getRoom(rooms, last.roomCode).playbackState.isPlaying

\* C37: after the events of a host's departure have been processed, the page
\* of the member the server promoted has isHost true, and its canControl()
\* returns true in host-only mode.
C37_PromotedPageIsHost ==
  (IsLeave(last) /\ last.ok /\ last.wasHost /\ ~last.roomDeleted)
    => LET promoted == getRoom(rooms, last.roomCode).hostSocketId IN
       /\ client[promoted].isHost
       /\ clientCanControl(client[promoted])

\* the page of socket s shows what its playbackState holds: playing or
\* paused as stored, and within the hard-seek threshold of the position
Follows(s) ==
  LET c == client[s] IN
  /\ c.video.paused = ~c.playbackState.isPlaying
  /\ Abs(c.video.currentTime - c.playbackState.playbackTime.v)
       <= syncThreshold

\* an accepted play, pause or seek of a shared room has just been echoed to
\* member s, who is not the one that asked
Echoed(s) ==
  /\ IsControl(last) /\ last.ok /\ last.socket # s
  /\ getRoom(rooms, last.roomCode).controlMode = "shared"
  /\ Len(out) = 1 /\ s \in out[1].to

\* C38: in shared mode, once a member's play, pause or seek has been
\* accepted and echoed, the page of every other member eventually shows the
\* new playing state and position on its video element (or has left the room).
C38_MembersFollow ==
  \A s \in 1..MaxClientSockets :
    Echoed(s) ~> (Follows(s) \/ client[s].roomCode = NoCode
                             \/ conn[s] = "gone")

====
